---- MODULE Spec2Model ----
(***************************************************************************)
(* LineWriter (pkg/linewriter): an io.Writer that buffers its output in a  *)
(* bufio.Writer and flushes it to the underlying io.Writer after every     *)
(* newline byte.                                                           *)
(*                                                                         *)
(* One action per exported method.  An action is the whole call: every     *)
(* l.buffer.Write / l.buffer.Flush it makes and every write those make to  *)
(* the underlying io.Writer (the sink).  The sink is the environment: each *)
(* call picks a script saying which of the call's sink writes, if any,     *)
(* fails, how many bytes that write accepts and which error it returns.    *)
(* The sink honours the io.Writer contract (a write that accepts fewer     *)
(* bytes than it was given returns a non-nil error).                       *)
(***************************************************************************)
EXTENDS Integers, Sequences, FiniteSets

(* ------------------------------ bounds --------------------------------- *)

\* capacity of the bufio.Writer's buffer (bufio's default is 4096 bytes;
\* scaled down so that writes reach and exceed it)
BufSize == 2

\* the total number of bytes handed to the writer over its lifetime
MaxStream == 4

\* a script can fail the 1st .. MaxFailAt-th sink write of a call
MaxFailAt == 2

\* the failing sink write accepts 0 .. MaxAcc bytes (at most what it is given)
MaxAcc == 1

\* the longest string WriteString draws
MaxStr == 2

(* ----------------------------- constants ------------------------------- *)

newline == 10

\* the bytes Write, WriteString and WriteByte draw from: "\n", "a"
Bytes == {newline, 97}

\* the code points WriteRune draws from: "\n", U+00E9 (2 bytes), U+20AC
\* (3 bytes), U+1F600 (4 bytes), U+D800 (a surrogate: not encodable)
Runes == {newline, 233, 8364, 128512, 55296}

Nil == "nil"

\* the errors the sink can return
SinkErrors == {"EIO", "EPIPE"}

\* io.ErrShortWrite
ErrShortWrite == "short write"

(* ------------------------------ helpers -------------------------------- *)

Min(a, b) == IF a <= b THEN a ELSE b

\* p[lo:hi] of Go (0-based, hi exclusive)
Slice(p, lo, hi) == SubSeq(p, lo + 1, hi)

\* p[n:]
From(p, n) == SubSeq(p, n + 1, Len(p))

\* sequences over S of length 0 .. n
SeqsUpTo(S, n) == UNION {[1..k -> S] : k \in 0..n}

(* ------------------------- the sink (io.Writer) ------------------------ *)

NoFail == [failAt |-> 0, acc |-> 0, err |-> Nil]

Scripts ==
    {NoFail} \cup [failAt : 1..MaxFailAt, acc : 0..MaxAcc, err : SinkErrors]

\* an entry of the call log
Event(ev, via, data, n, err) ==
    [ev |-> ev, via |-> via, data |-> data, n |-> n, err |-> err]

\* machine m with an entry added to its log
Logged(m, ev, via, data, n, err) ==
    [m EXCEPT !.log = Append(@, Event(ev, via, data, n, err))]

\* what the k-th sink write of a call returns for data: every byte accepted
\* and nil, unless the script fails it
SinkAccepts(k, data, s) == IF k = s.failAt THEN Min(s.acc, Len(data)) ELSE Len(data)

SinkErr(k, s) == IF k = s.failAt THEN s.err ELSE Nil

\* b.wr.Write(data).  m is the machine during a call: buf, err (the
\* bufio.Writer), sink (the bytes the sink accepted so far), k (sink writes
\* made by this call), log (what the call did, in order).
SinkWrite(m, data, via, s) ==
    [m |-> [m EXCEPT !.sink = @ \o SubSeq(data, 1, SinkAccepts(m.k + 1, data, s)),
                     !.k = @ + 1,
                     !.log = Append(@, Event("sink", via, data,
                                             SinkAccepts(m.k + 1, data, s),
                                             SinkErr(m.k + 1, s)))],
     n |-> SinkAccepts(m.k + 1, data, s),
     err |-> SinkErr(m.k + 1, s)]

(* ----------------------------- bufio.Writer ---------------------------- *)

\* b.Available()
Available(m) == BufSize - Len(m.buf)

\* b.Buffered()
Buffered(m) == Len(m.buf)

\* Flush: if n < b.n && err == nil { err = io.ErrShortWrite }
\* (not taken with a sink that honours the io.Writer contract)
FlushErr(w, len) == IF w.n < len /\ w.err = Nil THEN ErrShortWrite ELSE w.err

\* Flush that keeps the whole buffer when its sink write fails
Flushed_KeepsAccepted(buf, w) ==
    IF FlushErr(w, Len(buf)) # Nil
    THEN [m |-> [w.m EXCEPT !.buf = buf, !.err = FlushErr(w, Len(buf))],
          err |-> FlushErr(w, Len(buf))]
    ELSE [m |-> [w.m EXCEPT !.buf = <<>>], err |-> Nil]

\* Flush after its sink write w of the buffer buf: on an error the bytes
\* not accepted stay buffered and the error is kept in b.err
Flushed(buf, w) ==
    IF FlushErr(w, Len(buf)) # Nil
    THEN [m |-> [w.m EXCEPT !.buf = From(buf, w.n), !.err = FlushErr(w, Len(buf))],
          err |-> FlushErr(w, Len(buf))]
    ELSE [m |-> [w.m EXCEPT !.buf = <<>>], err |-> Nil]

\* b.Flush() without "if b.n == 0 { return nil }"
BufFlush_NoEmptyCheck(m, s) ==
    IF m.err # Nil THEN [m |-> m, err |-> m.err]
    ELSE Flushed(m.buf, SinkWrite(m, m.buf, "flush", s))

\* b.Flush() without "if b.err != nil { return b.err }"
BufFlush_Retries(m, s) ==
    IF Len(m.buf) = 0 THEN [m |-> m, err |-> Nil]
    ELSE Flushed(m.buf, SinkWrite(m, m.buf, "flush", s))

\* b.Flush()
BufFlush(m, s) ==
    IF m.err # Nil THEN [m |-> m, err |-> m.err]
    ELSE IF Len(m.buf) = 0 THEN [m |-> m, err |-> Nil]
    ELSE Flushed(m.buf, SinkWrite(m, m.buf, "flush", s))

\* Write: n, b.err = b.wr.Write(p)
Direct(w) == [m |-> [w.m EXCEPT !.err = w.err], n |-> w.n]

\* Write: n = copy(b.buf[b.n:], p); b.n += n
Copy(m, p, n) ==
    Logged([m EXCEPT !.buf = @ \o SubSeq(p, 1, n)], "copy", "", SubSeq(p, 1, n), n, Nil)

\* one round of the loop of b.Write(p), taken while len(p) > b.Available()
\* and b.err == nil: a large write into an empty buffer goes straight to the
\* sink, otherwise the buffer is filled and flushed.  n is the number of
\* bytes of p the round consumed.
BufWriteRound(m, p, s) ==
    IF Buffered(m) = 0
    THEN Direct(SinkWrite(m, p, "direct", s))
    ELSE [m |-> BufFlush(Copy(m, p, Min(Available(m), Len(p))), s).m,
          n |-> Min(Available(m), Len(p))]

\* the end of b.Write(p), once p fits or b.err is set
BufWriteRest(m, p, nn) ==
    IF m.err # Nil THEN [m |-> m, nn |-> nn, err |-> m.err]
    ELSE [m |-> Copy(m, p, Len(p)), nn |-> nn + Len(p), err |-> Nil]

RECURSIVE BufWriteLoop(_, _, _, _)

\* after a round r of the loop: nn += n; p = p[n:]
BufWriteNext(r, p, nn, s) == BufWriteLoop(r.m, From(p, r.n), nn + r.n, s)

\* the loop with "len(p) >= b.Available()"
BufWriteLoop_Ge(m, p, nn, s) ==
    IF Len(p) > 0 /\ Len(p) >= Available(m) /\ m.err = Nil
    THEN BufWriteNext(BufWriteRound(m, p, s), p, nn, s)
    ELSE BufWriteRest(m, p, nn)

\* the loop of b.Write(p): for len(p) > b.Available() && b.err == nil { ... }
BufWriteLoop(m, p, nn, s) ==
    IF Len(p) > Available(m) /\ m.err = Nil
    THEN BufWriteNext(BufWriteRound(m, p, s), p, nn, s)
    ELSE BufWriteRest(m, p, nn)

\* b.Write(p)
BufWrite(m, p, s) == BufWriteLoop(m, p, 0, s)

(* ------------------------------ LineWriter ----------------------------- *)

\* the return of l.buffer.Write / l.buffer.Flush, logged
Returned(m, ev, n, err) == Logged(m, ev, "", <<>>, n, err)

\* passthrough after its flush f, without "lower = upper"
flushed_NoAdvance(w, upper, f) ==
    [w EXCEPT !.m = Returned(f.m, "bufFlush", 0, f.err), !.err = f.err]

\* passthrough after err = l.buffer.Flush(): w holds the machine and Write's
\* n, lower and err
flushed(w, upper, f) ==
    IF f.err # Nil
    THEN [w EXCEPT !.m = Returned(f.m, "bufFlush", 0, f.err), !.err = f.err]
    ELSE [w EXCEPT !.m = Returned(f.m, "bufFlush", 0, f.err),
                   !.lower = upper, !.err = Nil]

\* passthrough without its flush
written_NoFlush(w, upper, flush, s, r) ==
    IF r.err # Nil
    THEN [w EXCEPT !.m = Returned(r.m, "bufWrite", r.nn, r.err),
                   !.n = @ + r.nn, !.err = r.err]
    ELSE [w EXCEPT !.m = Returned(r.m, "bufWrite", r.nn, r.err),
                   !.n = @ + r.nn, !.lower = upper, !.err = Nil]

\* passthrough that flushes whatever its flush argument says
written_AlwaysFlush(w, upper, flush, s, r) ==
    IF r.err # Nil
    THEN [w EXCEPT !.m = Returned(r.m, "bufWrite", r.nn, r.err),
                   !.n = @ + r.nn, !.err = r.err]
    ELSE flushed([w EXCEPT !.n = @ + r.nn], upper,
                 BufFlush(Returned(r.m, "bufWrite", r.nn, r.err), s))

\* passthrough that goes on after a failed l.buffer.Write
written_DropsWriteErr(w, upper, flush, s, r) ==
    IF flush
    THEN flushed([w EXCEPT !.n = @ + r.nn], upper,
                 BufFlush(Returned(r.m, "bufWrite", r.nn, r.err), s))
    ELSE [w EXCEPT !.m = Returned(r.m, "bufWrite", r.nn, r.err),
                   !.n = @ + r.nn, !.lower = upper, !.err = Nil]

\* a flushed segment counted only once its flush has succeeded
flushed_ThenCount(w, upper, nn, f) ==
    IF f.err # Nil
    THEN [w EXCEPT !.m = Returned(f.m, "bufFlush", 0, f.err), !.err = f.err]
    ELSE [w EXCEPT !.m = Returned(f.m, "bufFlush", 0, f.err),
                   !.n = @ + nn, !.lower = upper, !.err = Nil]

\* passthrough that counts a segment once it is written and flushed
written_CountOnSuccess(w, upper, flush, s, r) ==
    IF r.err # Nil
    THEN [w EXCEPT !.m = Returned(r.m, "bufWrite", r.nn, r.err), !.err = r.err]
    ELSE IF flush
    THEN flushed_ThenCount(w, upper, r.nn,
                           BufFlush(Returned(r.m, "bufWrite", r.nn, r.err), s))
    ELSE [w EXCEPT !.m = Returned(r.m, "bufWrite", r.nn, r.err),
                   !.n = @ + r.nn, !.lower = upper, !.err = Nil]

\* passthrough after written, err := l.buffer.Write(p[lower:upper]), r:
\* n += written, return on an error, flush if asked, lower = upper
written(w, upper, flush, s, r) ==
    IF r.err # Nil
    THEN [w EXCEPT !.m = Returned(r.m, "bufWrite", r.nn, r.err),
                   !.n = @ + r.nn, !.err = r.err]
    ELSE IF flush
    THEN flushed([w EXCEPT !.n = @ + r.nn], upper,
                 BufFlush(Returned(r.m, "bufWrite", r.nn, r.err), s))
    ELSE [w EXCEPT !.m = Returned(r.m, "bufWrite", r.nn, r.err),
                   !.n = @ + r.nn, !.lower = upper, !.err = Nil]

\* the closure passthrough of Write
passthrough(w, p, upper, flush, s) ==
    written(w, upper, flush, s, BufWrite(w.m, Slice(p, w.lower, upper), s))

\* the remainder flushed like a line
WriteTail_Flush(w, p, s) ==
    IF w.lower < Len(p) THEN passthrough(w, p, Len(p), TRUE, s) ELSE w

\* Write's results w1 with the count n
Uncounted(n, w1) == [w1 EXCEPT !.n = n]

\* the remainder buffered without being counted
WriteTail_Uncounted(w, p, s) ==
    IF w.lower < Len(p) THEN Uncounted(w.n, passthrough(w, p, Len(p), FALSE, s)) ELSE w

\* the remainder handed to l.buffer even when it is empty: lower <= len(p)
WriteTail_Le(w, p, s) ==
    IF w.lower <= Len(p) THEN passthrough(w, p, Len(p), FALSE, s) ELSE w

\* the remainder after the last newline: if lower < len(p) { ... }
WriteTail(w, p, s) ==
    IF w.lower < Len(p) THEN passthrough(w, p, Len(p), FALSE, s) ELSE w

RECURSIVE WriteLoop(_, _, _, _)

\* the loop without "if err != nil { return }"
WriteLoopNext_NoStop(w1, p, i, s) == WriteLoop(w1, p, i + 1, s)

\* after err = passthrough(i+1, true): if err != nil { return }
WriteLoopNext(w1, p, i, s) ==
    IF w1.err # Nil THEN w1 ELSE WriteLoop(w1, p, i + 1, s)

\* the loop with passthrough(i, true): a line is flushed without its newline
WriteLoop_BeforeNewline(w, p, i, s) ==
    IF i > Len(p) THEN WriteTail(w, p, s)
    ELSE IF p[i] = newline
    THEN WriteLoopNext(passthrough(w, p, i - 1, TRUE, s), p, i, s)
    ELSE WriteLoop(w, p, i + 1, s)

\* for i, b := range p { ... } from the 1-based position i on
WriteLoop(w, p, i, s) ==
    IF i > Len(p) THEN WriteTail(w, p, s)
    ELSE IF p[i] = newline
    THEN WriteLoopNext(passthrough(w, p, i, TRUE, s), p, i, s)
    ELSE WriteLoop(w, p, i + 1, s)

\* l.Write(p) on machine m: the machine it leaves, n and err
WriteCall(m, p, s) ==
    WriteLoop([m |-> m, n |-> 0, lower |-> 0, err |-> Nil], p, 1, s)

\* l.Flush() after l.buffer.Flush(), wrapping its error
FlushReturn_WrapsErr(f) ==
    [m |-> Returned(f.m, "bufFlush", 0, f.err), n |-> 0,
     err |-> IF f.err # Nil THEN "flush failed" ELSE Nil]

\* l.Flush() after l.buffer.Flush(): return its error
FlushReturn(f) ==
    [m |-> Returned(f.m, "bufFlush", 0, f.err), n |-> 0, err |-> f.err]

\* l.Flush() on machine m
FlushCall(m, s) == FlushReturn(BufFlush(m, s))

\* the UTF-8 encoding of a code point of three bytes
Encode3(c) == <<224 + (c \div 4096), 128 + ((c \div 64) % 64), 128 + (c % 64)>>

\* utf8.EncodeRune(buf, r), buf[:nbytes]
EncodeRune(r) ==
    IF r >= 0 /\ r <= 127 THEN <<r>>
    ELSE IF r >= 0 /\ r <= 2047 THEN <<192 + (r \div 64), 128 + (r % 64)>>
    ELSE IF r < 0 \/ r > 1114111 \/ (r >= 55296 /\ r <= 57343) THEN Encode3(65533)
    ELSE IF r <= 65535 THEN Encode3(r)
    ELSE <<240 + (r \div 262144), 128 + ((r \div 4096) % 64),
           128 + ((r \div 64) % 64), 128 + (r % 64)>>

(* -------------------------------- state -------------------------------- *)

VARIABLES
    buffer,     \* l.buffer: [buf |-> the bytes buffered (buf[0:n]), err |-> b.err]
    sink,       \* the bytes the underlying io.Writer has accepted, in order
    input,      \* history: the concatenation of every input handed to the writer
    sinkErrs,   \* history: the errors the sink has returned
    retErrs,    \* history: the non-nil errors the calls have returned
    counted,    \* history: the concatenation of p[:n] of every l.Write(p), n
                \* being the count it returned
    last        \* history: the most recent call: op, arg (the bytes handed to
                \* l.Write), n and err (what l.Write or l.Flush returned), pre
                \* and preErr (the buffer when the call began), log (what the
                \* call did, in order), after (for a Flush: the call before it)

vars == <<buffer, sink, input, sinkErrs, retErrs, counted, last>>

NoCall == [op |-> "New", arg |-> <<>>, n |-> 0, err |-> Nil,
           pre |-> <<>>, preErr |-> Nil, log |-> <<>>]

\* the call a Flush came right after
Summary(c) == [op |-> c.op, arg |-> c.arg, n |-> c.n, err |-> c.err,
               pre |-> c.pre, preErr |-> c.preErr, log |-> c.log]

\* the machine a call starts on
Machine == [buf |-> buffer.buf, err |-> buffer.err, sink |-> sink, k |-> 0, log |-> <<>>]

\* the errors of the sink writes in a call log
LogErrs(log) == {log[i].err : i \in {j \in 1..Len(log) : log[j].ev = "sink"}} \ {Nil}

\* the state after a call on arg that returned r: the machine it left, n, err
Return(op, arg, r, after) ==
    /\ buffer' = [buf |-> r.m.buf, err |-> r.m.err]
    /\ sink' = r.m.sink
    /\ input' = input \o arg
    /\ sinkErrs' = sinkErrs \cup LogErrs(r.m.log)
    /\ retErrs' = retErrs \cup ({r.err} \ {Nil})
    /\ counted' = counted \o SubSeq(arg, 1, Min(r.n, Len(arg)))
    /\ last' = [op |-> op, arg |-> arg, n |-> r.n, err |-> r.err,
                pre |-> buffer.buf, preErr |-> buffer.err,
                log |-> r.m.log, after |-> after]

\* New(w)
Init ==
    /\ buffer = [buf |-> <<>>, err |-> Nil]
    /\ sink = <<>>
    /\ input = <<>>
    /\ sinkErrs = {}
    /\ retErrs = {}
    /\ counted = <<>>
    /\ last = [op |-> "New", arg |-> <<>>, n |-> 0, err |-> Nil,
               pre |-> <<>>, preErr |-> Nil, log |-> <<>>, after |-> NoCall]

\* the bytes the stream can still take
Room == MaxStream - Len(input)

\* l.Write(p)
Write ==
    \E p \in SeqsUpTo(Bytes, Room), s \in Scripts :
        Return("Write", p, WriteCall(Machine, p, s), NoCall)

\* l.buffer.Write returning, as the result of a call
Buffered1(r) ==
    [m |-> Returned(r.m, "bufWrite", r.nn, r.err), n |-> r.nn, err |-> r.err]

\* l.WriteByte(c) that hands c to l.buffer, not to l.Write
WriteByte_Buffered ==
    \E c \in Bytes, s \in Scripts :
        /\ Room >= 1
        /\ Return("WriteByte", <<c>>, Buffered1(BufWrite(Machine, <<c>>, s)), NoCall)

\* l.WriteByte(c): the count of l.Write is dropped (last.n keeps it)
WriteByte ==
    \E c \in Bytes, s \in Scripts :
        /\ Room >= 1
        /\ Return("WriteByte", <<c>>, WriteCall(Machine, <<c>>, s), NoCall)

\* l.WriteRune(r)
WriteRune ==
    \E c \in Runes, s \in Scripts :
        /\ Room >= Len(EncodeRune(c))
        /\ Return("WriteRune", EncodeRune(c), WriteCall(Machine, EncodeRune(c), s), NoCall)

\* l.WriteString(s): []byte(s) is the string's bytes
WriteString ==
    \E str \in SeqsUpTo(Bytes, Min(MaxStr, Room)), s \in Scripts :
        Return("WriteString", str, WriteCall(Machine, str, s), NoCall)

\* l.Flush()
Flush ==
    \E s \in Scripts :
        Return("Flush", <<>>, FlushCall(Machine, s), Summary(last))

Next == Write \/ WriteByte \/ WriteRune \/ WriteString \/ Flush

Spec == Init /\ [][Next]_vars

(* ------------------------- what the claims read ------------------------ *)

WriteOps == {"Write", "WriteByte", "WriteRune", "WriteString"}

HasNL(p) == \E i \in 1..Len(p) : p[i] = newline

\* the position of the last newline of p, 0 when p has none
LastNL(p) ==
    IF HasNL(p) THEN CHOOSE i \in 1..Len(p) :
                         p[i] = newline /\ \A j \in (i + 1)..Len(p) : p[j] # newline
    ELSE 0

UpToLastNL(p) == SubSeq(p, 1, LastNL(p))

AfterLastNL(p) == From(p, LastNL(p))

IsPrefix(a, b) == Len(a) <= Len(b) /\ SubSeq(b, 1, Len(a)) = a

\* the sink writes of a call, in order
SinkWrites(log) == SelectSeq(log, LAMBDA e : e.ev = "sink")

\* the bytes the sink accepted during a call
RECURSIVE Accepted(_)
Accepted(log) ==
    IF log = <<>> THEN <<>>
    ELSE (IF Head(log).ev = "sink" THEN SubSeq(Head(log).data, 1, Head(log).n) ELSE <<>>)
         \o Accepted(Tail(log))

\* no sink write has failed so far, and so no call has
Healthy == sinkErrs = {} /\ retErrs = {}

(* -------------------------------- claims ------------------------------- *)

\* C1 as stated: after every Write that returns a nil error the sink holds
\* the cumulative input up to and including its last newline.
C1_AsStated ==
    (last.op = "Write" /\ last.err = Nil) => IsPrefix(UpToLastNL(input), sink)

\* C1, amended: after every Write (WriteByte, WriteRune, WriteString) that
\* returns a nil error on a writer none of whose calls has returned an error,
\* the sink holds the cumulative input up to and including its last newline;
\* a Write of a non-empty input that returns nil is always such a Write.
C1_FlushedThroughLastNewline ==
    /\ (last.op \in WriteOps /\ last.err = Nil /\ retErrs = {})
          => IsPrefix(UpToLastNL(input), sink)
    /\ (last.op \in WriteOps /\ last.err = Nil /\ last.arg # <<>>) => retErrs = {}

C1_Witness ==
    /\ last.op = "Write" /\ last.err = Nil /\ retErrs = {}
    /\ HasNL(last.arg) /\ AfterLastNL(last.arg) # <<>>
    /\ last.pre # <<>>
    /\ sink = UpToLastNL(input)

\* C2 as stated: after a Write(p) of a p with a newline that returns no
\* error, the buffer holds exactly the bytes of p after its last newline and
\* none of them has reached the sink.
C2_AsStated ==
    (last.op = "Write" /\ HasNL(last.arg) /\ last.err = Nil)
        => /\ buffer.buf = AfterLastNL(last.arg)
           /\ Accepted(last.log) = last.pre \o UpToLastNL(last.arg)

\* C2, amended: ... provided the bytes after p's last newline fit in the
\* buffer (at most BufSize of them); a longer remainder is written straight
\* to the sink and the buffer is left empty.
C2_RemainderBuffered ==
    /\ (last.op \in WriteOps /\ HasNL(last.arg) /\ last.err = Nil
            /\ Len(AfterLastNL(last.arg)) <= BufSize)
          => /\ buffer.buf = AfterLastNL(last.arg)
             /\ Accepted(last.log) = last.pre \o UpToLastNL(last.arg)
    /\ (last.op \in WriteOps /\ HasNL(last.arg) /\ last.err = Nil
            /\ Len(AfterLastNL(last.arg)) > BufSize)
          => /\ buffer.buf = <<>>
             /\ Accepted(last.log) = last.pre \o last.arg

C2_Witness ==
    /\ last.op = "Write" /\ last.err = Nil
    /\ last.pre # <<>>
    /\ HasNL(last.arg) /\ Len(AfterLastNL(last.arg)) = BufSize
    /\ buffer.buf = AfterLastNL(last.arg)

\* a Write(p) / WriteRune(r) of newline-free bytes on an empty buffer
NoNLOnEmpty(c) ==
    c.op \in {"Write", "WriteRune"} /\ ~HasNL(c.arg) /\ c.pre = <<>>

\* C3 as stated, for Write(p) and a sink that never fails: a newline-free
\* Write(p) on an empty buffer delivers nothing unless p exceeds the
\* capacity, and the Flush right after it delivers exactly p.
C3_AsStated ==
    /\ (last.op = "Write" /\ NoNLOnEmpty(last) /\ Len(last.arg) <= BufSize)
          => SinkWrites(last.log) = <<>>
    /\ (last.op = "Flush" /\ last.after.op = "Write" /\ NoNLOnEmpty(last.after)
            /\ Healthy)
          => Accepted(last.log) = last.after.arg

\* C3, amended: a newline-free Write(p) or WriteRune on an empty buffer
\* delivers nothing unless p exceeds the capacity; on a sink that never
\* fails the Flush right after it delivers exactly p when p fits in the
\* buffer, and nothing when p exceeds the capacity, the Write having then
\* written p itself straight to the sink.
C3_NoNewlineStaysBuffered ==
    /\ (NoNLOnEmpty(last) /\ Len(last.arg) <= BufSize)
          => SinkWrites(last.log) = <<>>
    /\ (last.op = "Flush" /\ NoNLOnEmpty(last.after) /\ Healthy
            /\ Len(last.after.arg) <= BufSize)
          => Accepted(last.log) = last.after.arg
    /\ (last.op = "Flush" /\ NoNLOnEmpty(last.after) /\ Healthy
            /\ Len(last.after.arg) > BufSize)
          => /\ Accepted(last.after.log) = last.after.arg
             /\ SinkWrites(last.log) = <<>>

C3_Witness ==
    /\ last.op = "Flush" /\ Healthy
    /\ last.after.op = "WriteRune" /\ NoNLOnEmpty(last.after)
    /\ last.after.arg = <<195, 169>> /\ last.after.n = 2 /\ last.after.err = Nil
    /\ SinkWrites(last.after.log) = <<>>
    /\ Accepted(last.log) = <<195, 169>>

\* C4: on a sink that never fails, after any calls followed by a Flush the
\* sink holds exactly the concatenation of all inputs and the buffer is empty.
C4_RoundTrip ==
    (last.op = "Flush" /\ sinkErrs = {}) => (sink = input /\ buffer.buf = <<>>)

C4_Witness ==
    /\ last.op = "Flush" /\ sinkErrs = {}
    /\ Len(input) = MaxStream /\ HasNL(input)
    /\ last.pre # <<>> /\ Len(last.after.log) > 2
    /\ sink = input

\* C5: a Write, WriteString or WriteRune that returns a nil error returns
\* the length of its input as its count (a short count comes with an error).
C5_ShortCountHasError ==
    (last.op \in WriteOps /\ last.n < Len(last.arg)) => last.err # Nil

C5_Witness ==
    /\ last.op = "WriteString" /\ last.n < Len(last.arg) /\ last.n > 0
    /\ last.err # Nil

\* the position of the first entry of a log that carries an error, 0 if none
FirstErrAt(log) ==
    IF \E i \in 1..Len(log) : log[i].err # Nil
    THEN CHOOSE i \in 1..Len(log) :
             log[i].err # Nil /\ \A j \in 1..(i - 1) : log[j].err = Nil
    ELSE 0

\* C6: a Write that returns an error returns the first error met and the
\* number n of bytes of p that went into the buffer or to the sink; no byte
\* of p from n on is appended or delivered; after the failing step the call
\* copies nothing, writes nothing to the sink and calls neither
\* l.buffer.Write nor l.buffer.Flush again.
C6_StopsAtFirstError ==
    (last.op \in WriteOps /\ last.err # Nil) =>
        LET log == last.log
            i   == FirstErrAt(log)
            end == Len(log)
        IN  /\ i > 0
            /\ log[i].err = last.err
            /\ last.n <= Len(last.arg)
            /\ Accepted(log) \o buffer.buf = last.pre \o SubSeq(last.arg, 1, last.n)
            /\ \/ /\ i = end
                  /\ log[i].ev = "bufWrite"
                  /\ last.preErr = last.err
               \/ /\ i = end - 1
                  /\ log[i].ev = "sink"
                  /\ log[end].ev \in {"bufWrite", "bufFlush"}
                  /\ log[end].err = last.err

C6_Witness ==
    /\ last.op = "Write" /\ last.err \in SinkErrors
    /\ last.n > 0 /\ last.n < Len(last.arg)
    /\ Len(SinkWrites(last.log)) = 2
    /\ buffer.buf # <<>>

\* a Write whose second sink write fails
SecondSinkWriteFails(c) ==
    /\ c.op \in WriteOps
    /\ Len(SinkWrites(c.log)) >= 2
    /\ SinkWrites(c.log)[2].err # Nil

\* C7 as stated: when the second sink write of a Write fails, Write returns
\* the sink's error and counts only the bytes of p written to the sink
\* before the failure (the first sink write's, less what was buffered before
\* the call), none of the segment whose sink write failed.
C7_AsStated ==
    SecondSinkWriteFails(last) =>
        /\ last.err = SinkWrites(last.log)[2].err
        /\ last.n = SinkWrites(last.log)[1].n - Len(last.pre)

\* C7, amended: when the second sink write of a Write fails, Write returns
\* the sink's error and counts every byte of p it put into the buffer or the
\* sink accepted: if the failing sink write is a flush of the buffer, every
\* byte of p handed to the sink in the two sink writes is counted, the
\* failed segment's included; if it is a direct write, the bytes it accepted.
C7_CountsBufferedBytes ==
    SecondSinkWriteFails(last) =>
        LET sw == SinkWrites(last.log)
        IN  /\ last.err = sw[2].err
            /\ last.n = (IF sw[2].via = "flush"
                         THEN Len(sw[1].data) + Len(sw[2].data)
                         ELSE sw[1].n + sw[2].n) - Len(last.pre)

C7_Witness ==
    /\ last.op = "Write" /\ last.pre = <<>>
    /\ last.arg = <<97, newline, 97, newline>>
    /\ SecondSinkWriteFails(last)
    /\ SinkWrites(last.log)[2].n = 0
    /\ last.n = 4
    /\ sink = <<97, newline>> /\ buffer.buf = <<97, newline>>

\* a Flush right after a Flush
FlushTwice == last.op = "Flush" /\ last.after.op = "Flush"

\* C8: the second of two Flushes in a row writes nothing to the sink and
\* leaves the buffer as it is; on a healthy sink (no sink write has failed)
\* it returns a nil error.
C8_FlushIdempotent ==
    FlushTwice =>
        /\ SinkWrites(last.log) = <<>>
        /\ buffer.buf = last.pre
        /\ sinkErrs = {} => last.err = Nil

C8_Witness ==
    /\ FlushTwice /\ sinkErrs = {}
    /\ Accepted(last.after.log) # <<>>
    /\ SinkWrites(last.log) = <<>> /\ last.err = Nil

\* C9 as stated: a non-nil error returned by a call is the error of a sink
\* write made during that call.
C9_AsStated ==
    last.err # Nil =>
        \E i \in 1..Len(SinkWrites(last.log)) : SinkWrites(last.log)[i].err = last.err

\* C9, amended: a non-nil error returned by a call is the error of a sink
\* write made during that call or, with no sink write made, the error the
\* writer has kept from the earlier call in which the sink failed; the kept
\* error is one the sink returned, and the error of a failed sink write is
\* always returned by the call that made it.
C9_ErrorsAreSinkErrors ==
    LET sw == SinkWrites(last.log)
    IN  /\ last.err # Nil =>
               \/ \E i \in 1..Len(sw) : sw[i].err = last.err
               \/ sw = <<>> /\ last.preErr = last.err
        /\ \A i \in 1..Len(sw) : sw[i].err # Nil => last.err = sw[i].err
        /\ buffer.err # Nil => buffer.err \in sinkErrs
        /\ retErrs \subseteq sinkErrs

C9_Witness ==
    /\ last.op = "Flush" /\ last.err = "EPIPE"
    /\ SinkWrites(last.log) = <<>>
    /\ last.after.op = "Write" /\ last.after.err = "EPIPE"
    /\ \E i \in 1..Len(last.after.log) : last.after.log[i].err = "EPIPE"
                                         /\ last.after.log[i].ev = "sink"

\* the first segment of p that Write hands to l.buffer.Write
FirstSegment(p) ==
    IF HasNL(p)
    THEN SubSeq(p, 1, CHOOSE i \in 1..Len(p) :
                          p[i] = newline /\ \A j \in 1..(i - 1) : p[j] # newline)
    ELSE p

PreMachine ==
    [buf |-> last.pre, err |-> last.preErr,
     sink |-> SubSeq(sink, 1, Len(sink) - Len(Accepted(last.log))),
     k |-> 0, log |-> <<>>]

\* the most recent call did, left and returned what l.Write(p) does from the
\* state the call began in, for some behaviour of the sink
SameAsWrite(p) ==
    \E s \in Scripts :
        LET r == WriteCall(PreMachine, p, s)
        IN  /\ r.m.buf = buffer.buf /\ r.m.err = buffer.err
            /\ r.m.sink = sink /\ r.m.log = last.log
            /\ r.err = last.err /\ r.n = last.n

\* the UTF-8 encodings of the code points of Runes, U+FFFD standing for the
\* surrogate
UTF8 ==
    {<<10>>, <<195, 169>>, <<226, 130, 172>>, <<240, 159, 152, 128>>,
     <<239, 191, 189>>}

\* C11: WriteByte(c), WriteString(s) and WriteRune(r) do, leave and return
\* what Write does on <<c>>, on the bytes of s and on the UTF-8 encoding of
\* r from the same state; WriteByte("\n") on a writer that has not failed
\* and whose sink accepts the writes delivers everything buffered and the
\* newline.
C11_SameAsWrite ==
    /\ last.op \in {"WriteByte", "WriteString", "WriteRune"} => SameAsWrite(last.arg)
    /\ last.op = "WriteByte" => Len(last.arg) = 1
    /\ last.op = "WriteRune" => last.arg \in UTF8
    /\ (last.op \in {"WriteString", "WriteRune"} /\ last.err = Nil)
          => last.n = Len(last.arg)
    /\ (last.op = "WriteByte" /\ last.arg = <<newline>> /\ last.err = Nil)
          => /\ Accepted(last.log) = last.pre \o <<newline>>
             /\ buffer.buf = <<>>

C11_Witness ==
    /\ last.op = "WriteByte" /\ last.arg = <<newline>> /\ last.err = Nil
    /\ Len(last.pre) = BufSize
    /\ Len(SinkWrites(last.log)) = 2
    /\ Accepted(last.log) = last.pre \o <<newline>>

\* C12: while the sink has accepted every write made to it without an
\* error, every Write(p) and every WriteString(s) returns a nil error and
\* the length of its input as its count, wherever the newlines of the
\* input are.
C12_AllWrittenWhenSinkAccepts ==
    (sinkErrs = {} /\ last.op \in {"Write", "WriteString"})
        => /\ last.err = Nil
           /\ last.n = Len(last.arg)

C12_Witness ==
    /\ sinkErrs = {}
    /\ last.op = "WriteString" /\ last.arg = <<newline, 97>>
    /\ last.pre = <<97>>
    /\ Len(input) = MaxStream
    /\ last.err = Nil /\ last.n = 2

\* the positions of the newlines of p
NLs(p) == {i \in 1..Len(p) : p[i] = newline}

\* the position of the k-th newline of p, 0 for k = 0
NLPos(p, k) ==
    IF k = 0 THEN 0
    ELSE CHOOSE i \in NLs(p) : Cardinality({j \in NLs(p) : j <= i}) = k

\* the k-th newline-terminated segment of p
Segment(p, k) == SubSeq(p, NLPos(p, k - 1) + 1, NLPos(p, k))

\* the positions of the sink writes in a log
SinkAt(log) == {i \in 1..Len(log) : log[i].ev = "sink"}

\* the position of the k-th sink write in a log
SinkPos(log, k) ==
    CHOOSE i \in SinkAt(log) : Cardinality({j \in SinkAt(log) : j <= i}) = k

RECURSIVE Copied(_, _)

\* the bytes of the input appended to the buffer by the first i entries
Copied(log, i) ==
    IF i = 0 THEN <<>>
    ELSE Copied(log, i - 1) \o (IF log[i].ev = "copy" THEN log[i].data ELSE <<>>)

\* no sink write of the call was made by l.buffer.Write: each is the flush
\* that follows the return of l.buffer.Write
NoCapacityFlush(log) ==
    \A i \in SinkAt(log) :
        log[i].via = "flush" /\ i > 1 /\ log[i - 1].ev = "bufWrite"

\* one sink write for each newline of the input, in order: the k-th carries
\* what was buffered and the k-th segment, and is made when the input
\* through the k-th newline, and no more, has been appended
OncePerNewline(c) ==
    /\ Cardinality(SinkAt(c.log)) = Cardinality(NLs(c.arg))
    /\ \A k \in 1..Cardinality(SinkAt(c.log)) :
          /\ c.log[SinkPos(c.log, k)].data
                = (IF k = 1 THEN c.pre ELSE <<>>) \o Segment(c.arg, k)
          /\ Copied(c.log, SinkPos(c.log, k)) = SubSeq(c.arg, 1, NLPos(c.arg, k))

\* C13 as stated: a Write(p) that triggers no capacity flush writes the sink
\* once for each newline of p.
C13_AsStated ==
    (last.op = "Write" /\ NoCapacityFlush(last.log)) => OncePerNewline(last)

\* C13, amended: a Write(p) that triggers no capacity flush and returns a
\* nil error writes the sink exactly once for each newline of p, in order:
\* the k-th sink write carries what was buffered before it and the k-th
\* newline-terminated segment, ends with that newline, and is made before
\* any byte of the next segment is appended.
C13_OneSinkWritePerNewline ==
    (last.op = "Write" /\ NoCapacityFlush(last.log) /\ last.err = Nil)
        => OncePerNewline(last)

C13_Witness ==
    /\ last.op = "Write" /\ last.err = Nil /\ NoCapacityFlush(last.log)
    /\ last.pre = <<97>> /\ last.arg = <<newline, 97, newline>>
    /\ Len(SinkWrites(last.log)) = 2
    /\ SinkWrites(last.log)[1].data = <<97, newline>>
    /\ SinkWrites(last.log)[2].data = <<97, newline>>
    /\ buffer.buf = <<>>

\* C14: in every state, after sink failures and partial sink writes too, the
\* bytes the sink has accepted are a prefix of the cumulative input, and
\* those bytes followed by the buffer are the concatenation of the counted
\* bytes (the first n bytes of the input of each Write, n its count) of all
\* calls so far.
C14_Conservation ==
    /\ IsPrefix(sink, input)
    /\ sink \o buffer.buf = counted

C14_Witness ==
    /\ last.op = "Write" /\ last.err # Nil
    /\ \E i \in SinkAt(last.log) :
          last.log[i].n = 1 /\ Len(last.log[i].data) = 2
    /\ last.n < Len(last.arg)
    /\ buffer.buf # <<>>
    /\ counted # input

\* what C15 says of a call made once a call has returned an error
AfterFailure ==
    /\ Cardinality(retErrs) = 1
    /\ (last'.op \in WriteOps /\ last'.arg # <<>>)
          => (last'.n = 0 /\ last'.err \in retErrs)
    /\ last'.op = "Flush" => last'.err \in retErrs
    /\ SinkAt(last'.log) = {}
    /\ sink' = sink
    /\ buffer' = buffer
    /\ retErrs' = retErrs

\* C15: once a call has returned a non-nil error, every later Write of a
\* non-empty input returns 0 and that error, every later Flush returns that
\* error, the sink is not written again and the bytes in the buffer stay
\* there, whatever the sink would do.
C15_StickyFailure == [][retErrs # {} => AfterFailure]_vars

C15_Witness ==
    /\ last.preErr # Nil /\ last.preErr \in retErrs
    /\ last.op = "Write" /\ HasNL(last.arg)
    /\ last.n = 0 /\ last.err = last.preErr
    /\ SinkAt(last.log) = {}
    /\ buffer.buf = last.pre /\ buffer.buf # <<>>
    /\ sink \o buffer.buf # input

\* the call of this step wrote nothing to the sink and left the buffer as
\* it was
NoEffect ==
    /\ SinkAt(last'.log) = {}
    /\ sink' = sink
    /\ buffer' = buffer

\* what C16 says of a step
Frame ==
    /\ sink' # sink
          => /\ last'.op \in WriteOps \cup {"Flush"}
             /\ SinkAt(last'.log) # {}
             /\ sink' = sink \o Accepted(last'.log)
    /\ (last'.op \in {"Write", "WriteString"} /\ last'.arg = <<>>)
          => (last'.n = 0 /\ last'.err = Nil /\ NoEffect)
    /\ (last'.op = "Flush" /\ buffer.buf = <<>> /\ buffer.err = Nil)
          => (last'.err = Nil /\ NoEffect)
    /\ SinkAt(last'.log) # {}
          => \/ last'.op = "Flush"
             \/ HasNL(last'.arg)
             \/ ~NoCapacityFlush(last'.log)
    /\ (last'.op \in WriteOps /\ NoCapacityFlush(last'.log))
          => IsPrefix(Accepted(last'.log), buffer.buf \o UpToLastNL(last'.arg))

\* C16: the sink changes only by the sink writes of a Write, WriteByte,
\* WriteRune, WriteString or Flush call; a Write of an empty input returns
\* (0, nil), and a Flush on an empty buffer of a writer that has not failed
\* returns nil, each without a sink write and with the buffer unchanged; a
\* call writes the sink only if it is a Flush, its input has a newline, or
\* the buffer's capacity is exceeded, and without the last it delivers
\* nothing after the last newline of its input.
C16_Frame == [][Frame]_vars

C16_Witness ==
    /\ last.op = "Write" /\ last.arg = <<>>
    /\ last.n = 0 /\ last.err = Nil /\ last.preErr = Nil
    /\ SinkAt(last.log) = {}
    /\ last.pre # <<>> /\ buffer.buf = last.pre
    /\ HasNL(input) /\ sink = UpToLastNL(input)

====
